---- MODULE Spec2Model ----
(***************************************************************************)
(* A model of download_reads.py: the join of fetched SRA experiments to    *)
(* their BioSamples, the per-sample run selection (BioSample.get_sra_runs),*)
(* the two aggregations over the resolved samples, and the accession       *)
(* validator of main().                                                    *)
(*                                                                         *)
(* Strings the program compares or scans (published dates, platform tags,  *)
(* accession lines) are tuples of characters, so that comparison, lower(), *)
(* substring search and the regular expressions are computed, not assumed. *)
(* Objects the program shares by reference (SraExperiment, SraRun) live in *)
(* the list sra_experiments; the samples' lists hold indices into it.      *)
(***************************************************************************)
EXTENDS Integers, Sequences, FiniteSets, TLC

\* Bounds of the model.
MaxSamples == 2
MaxExps == 2
MaxRuns == 3
MaxJoinRuns == 1

None == <<>>

\* published dates "10" and "9": as strings "9" > "10", as numbers 9 < 10.
PublishedDates == { <<1, 0>>, <<9>> }

\* BioSample accessions the archive can return, in fetch order.
SampleAccessions == [i \in 1..MaxSamples |-> <<"SAMN", i>>]

\* The accession of a BioSample the archive did not return.
Unfetched == <<"SAMN", 0>>

ILLUMINA == <<"I", "L", "L", "U", "M", "I", "N", "A">>
OXFORD_NANOPORE ==
    <<"O", "X", "F", "O", "R", "D", "_", "N", "A", "N", "O", "P", "O", "R", "E">>
PACBIO_SMRT == <<"P", "A", "C", "B", "I", "O", "_", "S", "M", "R", "T">>
LS454 == <<"L", "S", "4", "5", "4">>
Illumina == <<"I", "l", "l", "u", "m", "i", "n", "a">>
NANOPORE_ILLUMINA ==
    <<"N", "A", "N", "O", "P", "O", "R", "E", "_", "I", "L", "L", "U", "M", "I", "N", "A">>

\* The PLATFORM child tags the join is checked on: tags of the SRA schema, one
\* in mixed case, and one that holds two of the searched words.
Platforms ==
    { ILLUMINA, OXFORD_NANOPORE, PACBIO_SMRT, LS454, Illumina, NANOPORE_ILLUMINA }

\* The tags the selection is checked on: one for each list of a sample.
SelectionPlatforms == { ILLUMINA, OXFORD_NANOPORE, LS454 }

-----------------------------------------------------------------------------
\* str.lower() on one character.
LowerChar(c) ==
    CASE c = "A" -> "a" [] c = "B" -> "b" [] c = "C" -> "c" [] c = "D" -> "d"
      [] c = "E" -> "e" [] c = "F" -> "f" [] c = "I" -> "i" [] c = "L" -> "l"
      [] c = "M" -> "m" [] c = "N" -> "n" [] c = "O" -> "o" [] c = "P" -> "p"
      [] c = "R" -> "r" [] c = "S" -> "s" [] c = "T" -> "t" [] c = "U" -> "u"
      [] c = "X" -> "x" [] OTHER -> c

\* str.lower()
Lower(s) == [i \in 1..Len(s) |-> LowerChar(s[i])]

\* sub in s
Contains(sub, s) ==
    \E i \in 0..(Len(s) - Len(sub)) : SubSeq(s, i + 1, i + Len(sub)) = sub

illumina == <<"i", "l", "l", "u", "m", "i", "n", "a">>
nanopore == <<"n", "a", "n", "o", "p", "o", "r", "e">>
pacbio == <<"p", "a", "c", "b", "i", "o">>

\* The classification without platform.lower().
ClassifyNoLower(tag) ==
    IF Contains(illumina, tag) THEN "illumina"
    ELSE IF Contains(nanopore, tag) THEN "long_read"
    ELSE IF Contains(pacbio, tag) THEN "long_read"
    ELSE "other"

\* The list of the sample an experiment of this platform is appended to.
Classify(tag) ==
    LET platform == Lower(tag) IN
    IF Contains(illumina, platform) THEN "illumina"
    ELSE IF Contains(nanopore, platform) THEN "long_read"
    ELSE IF Contains(pacbio, platform) THEN "long_read"
    ELSE "other"

-----------------------------------------------------------------------------
VARIABLES
    pc,               \* "join", "resolved", "done", "error", or "validate"
    error,            \* the exception that ended the run (with the key, for a KeyError), or None
    biosamples,       \* the list built from the fetched BioSample records
    sra_experiments,  \* the fetched SraExperiment objects the join has reached, with their SraRun objects
    next_sample,      \* position of the aggregation loop in biosamples
    sra_runs,         \* the flat run list accumulated over the samples
    sra_run_warnings, \* the combined warning list of the aggregated output
    input_accessions, \* the set of right-stripped lines of the accession list
    pending,          \* the lines the validation loop has not reached yet
    validated_accessions, \* accession type -> list of accepted lines
    log_errors        \* the lines logging.error reported

vars == <<pc, error, biosamples, sra_experiments, next_sample, sra_runs,
          sra_run_warnings, input_accessions, pending, validated_accessions,
          log_errors>>

pipeline_vars == <<biosamples, sra_experiments, next_sample, sra_runs, sra_run_warnings>>
validator_vars == <<input_accessions, pending, validated_accessions, log_errors>>

\* BioSample.__init__: the fields the join and the selection use.
BioSample(accession) ==
    [accession |-> accession,
     illumina_experiments |-> <<>>,
     long_read_experiments |-> <<>>,
     other_experiments |-> <<>>,
     warnings |-> <<>>]

\* SraRun.__init__, and run.experiment = self of SraExperiment.__init__.
SraRun(e, j, published) ==
    [accession |-> <<e, j>>, sample |-> 0, experiment |-> e, published_date |-> published]

\* SraExperiment.__init__: e is the experiment's position in the fetched list
\* and stands for its accession.
SraExperiment(e, ref, tag, dates) ==
    [accession |-> e,
     biosample_accession |-> ref,
     platform |-> tag,
     runs |-> [j \in 1..Len(dates) |-> SraRun(e, j, dates[j])]]

RECURSIVE TotalRuns(_)
TotalRuns(exps) ==
    IF exps = <<>> THEN 0 ELSE Len(Head(exps).runs) + TotalRuns(Tail(exps))

\* The RUN_SET contents an experiment package can carry: the published dates
\* of its runs, in document order.
RunSets(n) == UNION { [1..k -> PublishedDates] : k \in 0..n }

\* biosample_dict = {b.accession: b for b in biosamples}; biosample_dict[key].
\* A later sample of the same accession replaces an earlier one; 0 is KeyError.
BiosampleDictLookup(samples, key) ==
    LET hits == { i \in 1..Len(samples) : samples[i].accession = key } IN
    IF hits = {} THEN 0 ELSE CHOOSE i \in hits : \A k \in hits : k <= i

\* The branch of the join loop that appends experiment e to a list of sample b.
AppendExperiment(samples, b, e, tag) ==
    LET class == Classify(tag) IN
    IF class = "illumina"
    THEN [samples EXCEPT ![b].illumina_experiments = Append(@, e)]
    ELSE IF class = "long_read"
    THEN [samples EXCEPT ![b].long_read_experiments = Append(@, e)]
    ELSE [samples EXCEPT ![b].other_experiments = Append(@, e)]

\* The join with biosample_dict.get(key) and a skip of the experiment when
\* there is no such sample.
JoinSkipUnknown(samples, e, experiment) ==
    LET b == BiosampleDictLookup(samples, experiment.biosample_accession) IN
    IF b = 0
    THEN [raised |-> FALSE, biosamples |-> samples]
    ELSE [raised |-> FALSE, biosamples |-> AppendExperiment(samples, b, e, experiment.platform)]

\* One iteration of `for experiment in sra_experiments`.
Join(samples, e, experiment) ==
    LET b == BiosampleDictLookup(samples, experiment.biosample_accession) IN
    IF b = 0
    THEN [raised |-> TRUE, biosamples |-> samples]
    ELSE [raised |-> FALSE, biosamples |-> AppendExperiment(samples, b, e, experiment.platform)]

\* BioSample.add_sra_sample_to_runs for every sample: run.sample = self for the
\* runs of the sample's experiments.
Owner(samples, e) ==
    LET owners == { b \in 1..Len(samples) :
                      \E k \in 1..Len(samples[b].illumina_experiments
                                       \o samples[b].long_read_experiments
                                       \o samples[b].other_experiments) :
                          (samples[b].illumina_experiments
                             \o samples[b].long_read_experiments
                             \o samples[b].other_experiments)[k] = e } IN
    IF owners = {} THEN 0 ELSE CHOOSE b \in owners : TRUE

AddSraSampleToRuns(samples, exps) ==
    [e \in 1..Len(exps) |->
        [exps[e] EXCEPT !.runs =
            [j \in 1..Len(exps[e].runs) |->
                [exps[e].runs[j] EXCEPT !.sample = Owner(samples, e)]]]]

-----------------------------------------------------------------------------
\* a < b for two str values: Python compares them character by character, a
\* proper prefix being the smaller.
RECURSIVE StrLess(_, _)
StrLess(a, b) ==
    IF b = <<>> THEN FALSE
    ELSE IF a = <<>> THEN TRUE
    ELSE IF Head(a) # Head(b) THEN Head(a) < Head(b)
    ELSE StrLess(Tail(a), Tail(b))

\* for experiment in experiments: runs += experiment.runs
RECURSIVE FlattenRuns(_, _)
FlattenRuns(exps, experiments) ==
    IF experiments = <<>> THEN <<>>
    ELSE exps[Head(experiments)].runs \o FlattenRuns(exps, Tail(experiments))

\* The place of a run under sorted(key=published_date) without reverse=True.
InsertAscending(placed, run) ==
    LET before == { k \in 1..Len(placed) :
                      ~ StrLess(run.published_date, placed[k].published_date) }
        n == Cardinality(before) IN
    SubSeq(placed, 1, n) \o <<run>> \o SubSeq(placed, n + 1, Len(placed))

\* Where sorted(key=published_date, reverse=True) puts a run among the runs
\* that precede it in the input: after every run whose date is not smaller
\* (the sort is stable, also with reverse=True).
InsertReverse(placed, run) ==
    LET before == { k \in 1..Len(placed) :
                      ~ StrLess(placed[k].published_date, run.published_date) }
        n == Cardinality(before) IN
    SubSeq(placed, 1, n) \o <<run>> \o SubSeq(placed, n + 1, Len(placed))

RECURSIVE SortedFrom(_, _)
SortedFrom(placed, runs) ==
    IF runs = <<>> THEN placed
    ELSE SortedFrom(InsertReverse(placed, Head(runs)), Tail(runs))

\* sorted(runs, key=lambda x: x.published_date, reverse=True)
SortedReverse(runs) == SortedFrom(<<>>, runs)

Accessions(runs) == [k \in 1..Len(runs) |-> runs[k].accession]

\* get_multiple_run_warning_message: runs[0] raises IndexError on an empty
\* list. The message is kept as its parts: the run type, the sample
\* accession, the run named as downloaded and the runs named as ignored.
get_multiple_run_warning_message(runs, run_type, biosample) ==
    IF runs = <<>>
    THEN [raised |-> TRUE,
          message |-> [kind |-> "multiple", run_type |-> run_type,
                       sample |-> biosample.accession,
                       downloaded |-> <<>>, ignored |-> <<>>]]
    ELSE [raised |-> FALSE,
          message |-> [kind |-> "multiple", run_type |-> run_type,
                       sample |-> biosample.accession,
                       downloaded |-> <<runs[1].accession>>,
                       ignored |-> Accessions(Tail(runs))]]

\* The warning of lines 214-217 for the runs that are neither Illumina nor long reads.
OtherRunsWarning(other_runs, biosample) ==
    [kind |-> "other", run_type |-> "neither Illumina nor long reads",
     sample |-> biosample.accession,
     downloaded |-> <<>>, ignored |-> Accessions(other_runs)]

\* The selection with runs += illumina_runs and runs += long_read_runs.
SelectAll(illumina_runs, long_read_runs) == illumina_runs \o long_read_runs

\* runs.append(illumina_runs[0]) and runs.append(long_read_runs[0]), each when
\* its list is not empty.
SelectFirsts(illumina_runs, long_read_runs) ==
    (IF illumina_runs # <<>> THEN <<illumina_runs[1]>> ELSE <<>>)
      \o (IF long_read_runs # <<>> THEN <<long_read_runs[1]>> ELSE <<>>)

\* BioSample.get_sra_runs: the returned list, and self.warnings as the call
\* leaves it (also when it raises).
get_sra_runs(biosample, exps) ==
    LET illumina_runs == SortedReverse(FlattenRuns(exps, biosample.illumina_experiments))
        long_read_runs == SortedReverse(FlattenRuns(exps, biosample.long_read_experiments))
        other_runs == FlattenRuns(exps, biosample.other_experiments)
        illumina_message ==
            get_multiple_run_warning_message(illumina_runs, "Illumina", biosample)
        \* line 211 passes illumina_runs, not long_read_runs
        long_read_message ==
            get_multiple_run_warning_message(illumina_runs, "long read", biosample)
        w1 == IF Len(illumina_runs) > 1
              THEN Append(biosample.warnings, illumina_message.message)
              ELSE biosample.warnings
        raised == Len(long_read_runs) > 1 /\ long_read_message.raised
        w2 == IF Len(long_read_runs) > 1 /\ ~ raised
              THEN Append(w1, long_read_message.message)
              ELSE w1
        w3 == IF other_runs # <<>>
              THEN Append(w2, OtherRunsWarning(other_runs, biosample))
              ELSE w2
    IN  IF raised
        THEN [raised |-> TRUE, runs |-> <<>>, warnings |-> w1]
        ELSE [raised |-> FALSE,
              runs |-> SelectFirsts(illumina_runs, long_read_runs),
              warnings |-> w3]

-----------------------------------------------------------------------------
\* The keys of type_suffix, in the order the dict holds them.
AccessionTypes == <<"project", "sample", "experiment", "run">>

\* validated_accessions = {k: list() for k in type_suffix.keys()}
NoAccessions == [t \in {"project", "sample", "experiment", "run"} |-> <<>>]

\* biosamples_from_biosample_uids up to the join: the BioSample records are
\* fetched and built; the experiments are consumed one by one by the join.
Init ==
    /\ pc = "join"
    /\ error = None
    /\ \E n \in 0..MaxSamples :
          biosamples = [i \in 1..n |-> BioSample(SampleAccessions[i])]
    /\ sra_experiments = <<>>
    /\ next_sample = 1
    /\ sra_runs = <<>>
    /\ sra_run_warnings = <<>>
    /\ input_accessions = {}
    /\ pending = {}
    /\ validated_accessions = NoAccessions
    /\ log_errors = <<>>

\* What an experiment's EXTERNAL_ID[@namespace='BioSample'] can hold: the
\* accession of a fetched sample, of a sample that was not fetched, or nothing
\* (biosample_accession stays None).
BiosampleRefs(samples) ==
    { samples[i].accession : i \in 1..Len(samples) } \cup { Unfetched, None }

\* Lines 82-92, one experiment of the fetched list: the lookup of its sample
\* raises KeyError(key) and ends the run, or the experiment is appended to one
\* list of that sample.
Associate(tags, max_runs) ==
    /\ pc = "join"
    /\ Len(sra_experiments) < MaxExps
    /\ \E ref \in BiosampleRefs(biosamples), tag \in tags,
          dates \in RunSets(max_runs - TotalRuns(sra_experiments)) :
          LET e == Len(sra_experiments) + 1
              experiment == SraExperiment(e, ref, tag, dates)
              joined == Join(biosamples, e, experiment) IN
          /\ sra_experiments' = Append(sra_experiments, experiment)
          /\ biosamples' = joined.biosamples
          /\ pc' = IF joined.raised THEN "error" ELSE "join"
          /\ error' = IF joined.raised THEN <<"KeyError", ref>> ELSE None
    /\ UNCHANGED <<next_sample, sra_runs, sra_run_warnings, validator_vars>>

\* Lines 94-98: the fetched list is exhausted, every run gets its sample and
\* the samples are returned.
JoinReturn ==
    /\ pc = "join"
    /\ sra_experiments' = AddSraSampleToRuns(biosamples, sra_experiments)
    /\ pc' = "resolved"
    /\ UNCHANGED <<error, biosamples, next_sample, sra_runs, sra_run_warnings,
                   validator_vars>>

\* for biosample in biosamples: sra_runs += biosample.get_sra_runs(), from
\* sample k on. An exception of get_sra_runs ends the loop at that sample.
RECURSIVE AggregateFrom(_, _, _, _)
AggregateFrom(samples, exps, k, runs) ==
    IF k > Len(samples)
    THEN [raised |-> FALSE, biosamples |-> samples, sra_runs |-> runs, next_sample |-> k]
    ELSE LET call == get_sra_runs(samples[k], exps)
             updated == [samples EXCEPT ![k].warnings = call.warnings] IN
         IF call.raised
         THEN [raised |-> TRUE, biosamples |-> updated, sra_runs |-> runs,
               next_sample |-> k]
         ELSE AggregateFrom(updated, exps, k + 1, runs \o call.runs)

\* sra_runs_from_bioproject_accessions, lines 21-23, over the resolved
\* samples: it returns the flat run list and nothing else.
SraRunsFromBioprojectAccessions ==
    /\ pc = "resolved"
    /\ LET loop == AggregateFrom(biosamples, sra_experiments, 1, <<>>) IN
          /\ biosamples' = loop.biosamples
          /\ sra_runs' = loop.sra_runs
          /\ next_sample' = loop.next_sample
          /\ pc' = IF loop.raised THEN "error" ELSE "done"
          /\ error' = IF loop.raised THEN <<"IndexError">> ELSE None
    /\ UNCHANGED <<sra_experiments, sra_run_warnings, validator_vars>>

\* get_sra_run_accession_for_biosamples: BioSample has no method
\* get_sra_run_accessions, so the first iteration raises AttributeError; over
\* no sample it returns three empty collections.
GetSraRunAccessionForBiosamples ==
    /\ pc = "resolved"
    /\ IF biosamples = <<>>
       THEN pc' = "done" /\ error' = None
       ELSE pc' = "error" /\ error' = <<"AttributeError">>
    /\ UNCHANGED <<pipeline_vars, validator_vars>>

Next ==
    \/ Associate(SelectionPlatforms, MaxRuns)
    \/ JoinReturn
    \/ SraRunsFromBioprojectAccessions
    \/ GetSraRunAccessionForBiosamples

\* The resolution of BioProjects into selected runs.
Spec == Init /\ [][Next]_vars

JoinNext ==
    \/ Associate(Platforms, MaxJoinRuns)
    \/ JoinReturn

\* biosamples_from_biosample_uids alone, over every platform tag.
JoinSpec == Init /\ [][JoinNext]_vars

-----------------------------------------------------------------------------
\* The accession validator of main().

MaxLines == 2

source_prefix == { <<"D", "R">>, <<"E", "R">>, <<"S", "R">> }

type_suffix == [project |-> "P", sample |-> "S", experiment |-> "X", run |-> "R"]

Digits == {"0", "1", "2", "3", "4", "5", "6", "7", "8", "9"}

Whitespace == {" ", "\t", "\n", "\r"}

\* Lines of an accession list: the examples of the documentation, lines that
\* miss the grammar in one place each, and every combination of a two-letter
\* prefix, a type letter and a tail.
ExampleLines ==
    { <<"S", "R", "P", "0", "1", "2", "3", "4", "5", "\n">>,
      <<"S", "R", "X", "0", "1", "2", "3", "4", "5", "\n">>,
      <<"S", "A", "M", "N", "0", "0", "0", "0", "0", "0", "0", "0", "\n">>,
      <<"E", "R", "R", "9", "9", "9", "9", "9", "9", "\n">>,
      <<"E", "R", "R", "9", "9", "9", "9", "9", "9">>,
      <<"D", "R", "S", "0", "0", "0", "0", "0", "1", "\n">>,
      <<"S", "R", "R", "1", " ", "\n">>,
      <<" ", "S", "R", "R", "1", "\n">>,
      <<"S", "R", "R", "1", "2", "a", "\n">>,
      <<"s", "r", "r", "1", "2", "3", "\n">>,
      <<"X", "S", "R", "R", "1", "\n">>,
      <<"S", "R", "R", "R", "1", "\n">>,
      <<"S", "R", "P", "1", "S", "R", "R", "2", "\n">>,
      <<"\n">>,
      <<"P", "R", "J", "N", "A", "1", "\n">>,
      <<"S", "R", "1", "\n">> }

CombinedLines ==
    { prefix \o <<letter>> \o tail \o <<"\n">> :
        prefix \in { <<"D", "R">>, <<"E", "R">>, <<"S", "R">>, <<"S", "A">> },
        letter \in { "P", "S", "X", "R", "A" },
        tail \in { <<>>, <<"4", "0">> } }

RawLines == ExampleLines \cup CombinedLines

\* str.rstrip(): the line without its trailing whitespace.
RECURSIVE RStrip(_)
RStrip(line) ==
    IF line # <<>> /\ line[Len(line)] \in Whitespace
    THEN RStrip(SubSeq(line, 1, Len(line) - 1))
    ELSE line

\* The number of characters [0-9]* consumes from position i of s.
RECURSIVE DigitRun(_, _)
DigitRun(s, i) ==
    IF i <= Len(s) /\ s[i] \in Digits THEN 1 + DigitRun(s, i + 1) ELSE 0

\* The validator without the $ that ends its pattern.
ValidatorMatchNoEnd(accession_type, s) ==
    /\ Len(s) >= 3
    /\ SubSeq(s, 1, 2) \in source_prefix
    /\ s[3] = type_suffix[accession_type]
    /\ DigitRun(s, 4) >= 1

\* re.compile(r'^(?:DR|ER|SR)<suffix>[0-9]+$').match(s): the prefix and the
\* suffix letter at the start, then digits up to the end of the string, where
\* $ also matches just before a final newline.
ValidatorMatch(accession_type, s) ==
    /\ Len(s) >= 3
    /\ SubSeq(s, 1, 2) \in source_prefix
    /\ s[3] = type_suffix[accession_type]
    /\ LET n == DigitRun(s, 4) IN
          /\ n >= 1
          /\ \/ 3 + n = Len(s)
             \/ 3 + n = Len(s) - 1 /\ s[Len(s)] = "\n"

\* No validator matched: the else branch of the for loop runs.
Unmatched == "unmatched"

\* The for/else over validators.items(), in the given order: the first type
\* whose validator matches.
RECURSIVE FirstMatch(_, _)
FirstMatch(order, s) ==
    IF order = <<>> THEN Unmatched
    ELSE IF ValidatorMatch(Head(order), s) THEN Head(order)
    ELSE FirstMatch(Tail(order), s)

\* Lines 333-347: the file is read into a set of right-stripped lines and the
\* lists are created.
ValidatorInit ==
    /\ pc = "validate"
    /\ error = None
    /\ \E n \in 0..MaxLines : \E file \in [1..n -> RawLines] :
          /\ input_accessions = { RStrip(file[i]) : i \in 1..n }
          /\ pending = { RStrip(file[i]) : i \in 1..n }
    /\ validated_accessions = NoAccessions
    /\ log_errors = <<>>
    /\ biosamples = <<>>
    /\ sra_experiments = <<>>
    /\ next_sample = 1
    /\ sra_runs = <<>>
    /\ sra_run_warnings = <<>>

\* Lines 348-354, one element of the set (a set is iterated in no fixed order).
ValidateAccession ==
    /\ pc = "validate"
    /\ \E input_accession \in pending :
          LET accession_type == FirstMatch(AccessionTypes, input_accession) IN
          /\ pending' = pending \ {input_accession}
          /\ IF accession_type # Unmatched
             THEN /\ validated_accessions' =
                        [validated_accessions EXCEPT
                            ![accession_type] = Append(@, input_accession)]
                  /\ UNCHANGED log_errors
             ELSE /\ log_errors' = Append(log_errors, input_accession)
                  /\ UNCHANGED validated_accessions
    /\ UNCHANGED <<pc, error, input_accessions, pipeline_vars>>

\* The loop is over.
ValidationDone ==
    /\ pc = "validate"
    /\ pending = {}
    /\ pc' = "validated"
    /\ UNCHANGED <<error, validator_vars, pipeline_vars>>

ValidatorNext ==
    \/ ValidateAccession
    \/ ValidationDone

\* The validation of an accession list file.
ValidatorSpec == ValidatorInit /\ [][ValidatorNext]_vars

-----------------------------------------------------------------------------
\* Properties of the selection (under Spec).

Range(seq) == { seq[i] : i \in 1..Len(seq) }

\* The runs of the experiments of one list of a sample.
RunsOf(experiments) ==
    UNION { Range(sra_experiments[e].runs) : e \in Range(experiments) }

IlluminaRuns(b) == RunsOf(biosamples[b].illumina_experiments)
LongReadRuns(b) == RunsOf(biosamples[b].long_read_experiments)
OtherRuns(b) == RunsOf(biosamples[b].other_experiments)

AccessionsOf(runs) == { r.accession : r \in runs }

\* d1 < d2 as strings: they agree up to a place where d1 ends or holds the
\* smaller character.
EarlierDate(d1, d2) ==
    \E i \in 1..Len(d2) :
        /\ i - 1 <= Len(d1)
        /\ SubSeq(d1, 1, i - 1) = SubSeq(d2, 1, i - 1)
        /\ (Len(d1) = i - 1 \/ d1[i] < d2[i])

MostRecentIn(run, runs) ==
    /\ run \in runs
    /\ \A r \in runs : ~ EarlierDate(run.published_date, r.published_date)

\* get_sra_runs has returned for sample b.
Completed(b) == pc \in {"done", "error"} /\ b < next_sample

\* get_sra_runs has raised for sample b.
Raised(b) == pc = "error" /\ error = <<"IndexError">> /\ b = next_sample

CallMade(b) == Completed(b) \/ Raised(b)

\* The list get_sra_runs returned for sample b: every run carries its sample.
Returned(b) ==
    LET OfSample(run) == run.sample = b IN SelectSeq(sra_runs, OfSample)

Positions(seq, Test(_)) == { k \in 1..Len(seq) : Test(seq[k]) }

\* The warnings of sample b for a run type.
WarningsOfType(b, run_type) ==
    LET IsOfType(w) == w.run_type = run_type IN
    Positions(biosamples[b].warnings, IsOfType)

\* C1: for every sample with at least one long-read run, get_sra_runs
\* completes and returns exactly one long-read run, a most recent one,
\* whatever the numbers of long-read and of Illumina runs.
C1_OneLongReadRunSelected ==
    \A b \in 1..Len(biosamples) :
        (CallMade(b) /\ LongReadRuns(b) # {}) =>
            /\ Completed(b)
            /\ \E k \in 1..Len(Returned(b)) :
                  /\ MostRecentIn(Returned(b)[k], LongReadRuns(b))
                  /\ \A m \in 1..Len(Returned(b)) :
                        Returned(b)[m] \in LongReadRuns(b) => m = k

\* C2: for every sample with two or more Illumina runs, get_sra_runs returns
\* an Illumina run of maximal published_date and appends exactly one Illumina
\* warning, which names that run as downloaded and exactly the sample's other
\* Illumina runs, each once, as ignored.
C2_IlluminaMostRecentAndOthersIgnored ==
    \A b \in 1..Len(biosamples) :
        (CallMade(b) /\ Cardinality(IlluminaRuns(b)) >= 2) =>
            /\ Completed(b)
            /\ Cardinality(WarningsOfType(b, "Illumina")) = 1
            /\ \E k \in 1..Len(Returned(b)) :
                  LET selected == Returned(b)[k] IN
                  /\ MostRecentIn(selected, IlluminaRuns(b))
                  /\ \A m \in 1..Len(Returned(b)) :
                        Returned(b)[m] \in IlluminaRuns(b) => m = k
                  /\ \A i \in WarningsOfType(b, "Illumina") :
                        LET w == biosamples[b].warnings[i] IN
                        /\ w.sample = biosamples[b].accession
                        /\ w.downloaded = <<selected.accession>>
                        /\ Range(w.ignored) =
                              AccessionsOf(IlluminaRuns(b)) \ {selected.accession}
                        /\ Len(w.ignored) = Cardinality(IlluminaRuns(b)) - 1

\* A sample with Illumina runs of different dates, the later one of a later
\* experiment, for which the call has returned a run and left a warning.
C2_Witness ==
    \E b \in 1..Len(biosamples) :
        /\ Completed(b)
        /\ Cardinality(IlluminaRuns(b)) >= 2
        /\ \E r1, r2 \in IlluminaRuns(b) :
              /\ r1.accession[1] < r2.accession[1]
              /\ EarlierDate(r1.published_date, r2.published_date)
        /\ Len(Returned(b)) >= 1
        /\ WarningsOfType(b, "Illumina") # {}

\* C3: when a sample has two or more long-read runs, the 'long read' warning
\* names the sample, the selected long-read run as downloaded and exactly the
\* other long-read runs, most recent first, as ignored.
C3_LongReadWarningNamesLongReadRuns ==
    \A b \in 1..Len(biosamples) :
        (CallMade(b) /\ Cardinality(LongReadRuns(b)) >= 2) =>
            \E i \in WarningsOfType(b, "long read") :
                LET w == biosamples[b].warnings[i] IN
                /\ w.sample = biosamples[b].accession
                /\ \E r \in LongReadRuns(b) :
                      /\ r \in Range(Returned(b))
                      /\ w.downloaded = <<r.accession>>
                      /\ Range(w.ignored) = AccessionsOf(LongReadRuns(b)) \ {r.accession}
                /\ \A x, y \in 1..Len(w.ignored) :
                      \A rx, ry \in LongReadRuns(b) :
                          (x < y /\ rx.accession = w.ignored[x] /\ ry.accession = w.ignored[y])
                              => ~ EarlierDate(rx.published_date, ry.published_date)

\* C4: the list get_sra_runs returns has at most 2 runs, at most one of an
\* experiment in illumina_experiments and at most one of an experiment in
\* long_read_experiments.
C4_AtMostOneRunPerCategory ==
    \A b \in 1..Len(biosamples) :
        Completed(b) =>
            LET OfIllumina(run) == run.experiment \in Range(biosamples[b].illumina_experiments)
                OfLongRead(run) == run.experiment \in Range(biosamples[b].long_read_experiments)
            IN  /\ Len(Returned(b)) <= 2
                /\ Cardinality(Positions(Returned(b), OfIllumina)) <= 1
                /\ Cardinality(Positions(Returned(b), OfLongRead)) <= 1

\* A sample with several Illumina runs and a long-read run, for which two runs
\* were returned.
C4_Witness ==
    \E b \in 1..Len(biosamples) :
        /\ Completed(b)
        /\ Cardinality(IlluminaRuns(b)) >= 2
        /\ LongReadRuns(b) # {}
        /\ Len(Returned(b)) = 2

\* C5: no run of an experiment in other_experiments is returned, and a call
\* on a sample with such runs appends exactly one 'neither Illumina nor long
\* reads' warning that lists all of them (none when the sample has no such run).
C5_OtherRunsIgnoredAndWarned ==
    \A b \in 1..Len(biosamples) :
        CallMade(b) =>
            LET IsOther(w) == w.kind = "other"
                others == Positions(biosamples[b].warnings, IsOther) IN
            /\ \A k \in 1..Len(Returned(b)) : Returned(b)[k] \notin OtherRuns(b)
            /\ IF OtherRuns(b) = {}
               THEN others = {}
               ELSE /\ Cardinality(others) = 1
                    /\ \A i \in others :
                          Range(biosamples[b].warnings[i].ignored) = AccessionsOf(OtherRuns(b))

\* An aggregation over the resolved samples has ended.
AggregationOver ==
    \/ pc = "done"
    \/ pc = "error" /\ error # None /\ error[1] # "KeyError"

\* C6: the aggregation over the resolved samples completes without error and
\* every warning the selection produced is in the combined warning list of
\* the output.
C6_NoWarningLost ==
    AggregationOver =>
        /\ pc = "done"
        /\ \A b \in 1..Len(biosamples) :
              Range(biosamples[b].warnings) \subseteq Range(sra_run_warnings)

\* The runs of a list of a sample that share the maximum published_date, as
\* positions in the input order.
TiedAtMaximum(input) ==
    { k \in 1..Len(input) : MostRecentIn(input[k], Range(input)) }

\* The claim of C10 for one category of sample b.
TiesKeepInputOrder(b, experiments, run_type) ==
    LET input == FlattenRuns(sra_experiments, experiments)
        tied == TiedAtMaximum(input)
        first == CHOOSE k \in tied : \A m \in tied : k <= m IN
    (CallMade(b) /\ Cardinality(tied) >= 2) =>
        /\ Completed(b)
        /\ input[first] \in Range(Returned(b))
        /\ \E i \in WarningsOfType(b, run_type) :
              LET w == biosamples[b].warnings[i] IN
              /\ Range(w.ignored) = AccessionsOf(Range(input)) \ {input[first].accession}
              /\ \A x, y \in 1..Len(w.ignored) : \A kx, ky \in 1..Len(input) :
                    ( /\ x < y
                      /\ input[kx].accession = w.ignored[x]
                      /\ input[ky].accession = w.ignored[y]
                      /\ input[kx].published_date = input[ky].published_date )
                        => kx < ky

\* C10: when several runs of one category share the maximum published_date,
\* the first of them in input order is selected, and runs of equal dates keep
\* their input order in the ignored list of the category's warning.
C10_TiesKeepInputOrder ==
    \A b \in 1..Len(biosamples) :
        /\ TiesKeepInputOrder(b, biosamples[b].illumina_experiments, "Illumina")
        /\ TiesKeepInputOrder(b, biosamples[b].long_read_experiments, "long read")

\* What the code does for the Illumina runs alone.
IlluminaTiesKeepInputOrder ==
    \A b \in 1..Len(biosamples) :
        TiesKeepInputOrder(b, biosamples[b].illumina_experiments, "Illumina")

-----------------------------------------------------------------------------
\* Properties of the join (under JoinSpec).

FetchedAccessions == { biosamples[b].accession : b \in 1..Len(biosamples) }

\* The number of times experiment e is in a list.
Occurrences(experiments, e) ==
    Cardinality({ k \in 1..Len(experiments) : experiments[k] = e })

\* The lists of all samples, each with its sample and its name.
SampleLists ==
    { <<b, "illumina", biosamples[b].illumina_experiments>> : b \in 1..Len(biosamples) }
      \cup { <<b, "long_read", biosamples[b].long_read_experiments>> : b \in 1..Len(biosamples) }
      \cup { <<b, "other", biosamples[b].other_experiments>> : b \in 1..Len(biosamples) }

ListsHolding(e) == { l \in SampleLists : Occurrences(l[3], e) > 0 }

\* biosamples_from_biosample_uids has returned its sample list.
JoinCompleted == pc = "resolved"

\* C7: an experiment whose biosample_accession (also an absent one) is the
\* accession of no fetched sample ends the run with an error at that
\* experiment, and no sample list is returned; a returned sample list holds
\* every fetched experiment.
C7_UnresolvedJoinIsFatal ==
    /\ \A e \in 1..Len(sra_experiments) :
          sra_experiments[e].biosample_accession \notin FetchedAccessions =>
              /\ pc = "error"
              /\ error = <<"KeyError", sra_experiments[e].biosample_accession>>
              /\ e = Len(sra_experiments)
    /\ JoinCompleted =>
          \A e \in 1..Len(sra_experiments) : ListsHolding(e) # {}

\* The run has stopped at an experiment without a BioSample id, after an
\* experiment that was attached.
C7_Witness ==
    /\ pc = "error"
    /\ error = <<"KeyError", None>>
    /\ Len(sra_experiments) >= 2
    /\ sra_experiments[Len(sra_experiments)].biosample_accession = None
    /\ ListsHolding(1) # {}

\* The list the documentation assigns to each platform tag of the model.
ExpectedList(tag) ==
    IF tag \in {ILLUMINA, Illumina, NANOPORE_ILLUMINA} THEN "illumina"
    ELSE IF tag \in {OXFORD_NANOPORE, PACBIO_SMRT} THEN "long_read"
    ELSE "other"

\* C9: after the join, every fetched experiment is in exactly one list, once,
\* of exactly one sample, the one whose accession is its biosample_accession,
\* and the list is the one of its platform: 'illumina' first, then 'nanopore'
\* or 'pacbio' (long read), else other, whatever the case of the tag.
C9_ExperimentsPartitioned ==
    JoinCompleted =>
        \A e \in 1..Len(sra_experiments) :
            /\ Cardinality(ListsHolding(e)) = 1
            /\ \A l \in ListsHolding(e) :
                  /\ Occurrences(l[3], e) = 1
                  /\ biosamples[l[1]].accession = sra_experiments[e].biosample_accession
                  /\ l[2] = ExpectedList(sra_experiments[e].platform)

\* A completed join over an experiment whose tag holds 'nanopore' and
\* 'illumina' and a PacBio experiment, of different samples.
C9_Witness ==
    /\ JoinCompleted
    /\ \E e1, e2 \in 1..Len(sra_experiments) :
          /\ sra_experiments[e1].platform = NANOPORE_ILLUMINA
          /\ sra_experiments[e2].platform = PACBIO_SMRT
          /\ sra_experiments[e1].biosample_accession
                # sra_experiments[e2].biosample_accession

-----------------------------------------------------------------------------
\* Properties of the accession validator (under ValidatorSpec).

\* The line is a source prefix, the letter, then one or more digits.
HasAccessionForm(line, letter) ==
    /\ Len(line) >= 4
    /\ <<line[1], line[2]>> \in { <<"D", "R">>, <<"E", "R">>, <<"S", "R">> }
    /\ line[3] = letter
    /\ \A i \in 4..Len(line) : line[i] \in Digits

TypeOfLetter == [P |-> "project", S |-> "sample", X |-> "experiment", R |-> "run"]

TypeNames == {"project", "sample", "experiment", "run"}

Count(seq, x) == Cardinality({ k \in 1..Len(seq) : seq[k] = x })

\* The orders in which the four validators can be tried.
ValidatorOrders ==
    { [i \in 1..4 |-> AccessionTypes[p[i]]] : p \in Permutations(1..4) }

\* C8: a validated line of the form prefix + letter + digits is in exactly one
\* list, the one of its letter, once, and is not logged; any other line is in
\* no list and is logged; the outcome is the same in every order of the
\* validators; and the loop ends only when every line has been treated.
C8_ValidatorClassifiesByLetter ==
    /\ \A line \in input_accessions \ pending :
          /\ \A letter \in {"P", "S", "X", "R"} :
                Count(validated_accessions[TypeOfLetter[letter]], line)
                    = IF HasAccessionForm(line, letter) THEN 1 ELSE 0
          /\ Count(log_errors, line)
                = IF \E letter \in {"P", "S", "X", "R"} : HasAccessionForm(line, letter)
                  THEN 0 ELSE 1
          /\ \A order \in ValidatorOrders :
                FirstMatch(order, line) = FirstMatch(AccessionTypes, line)
    /\ \A line \in pending :
          /\ Count(log_errors, line) = 0
          /\ \A t \in TypeNames : Count(validated_accessions[t], line) = 0
    /\ pc = "validated" => pending = {}

SAMN00000000 == <<"S", "A", "M", "N", "0", "0", "0", "0", "0", "0", "0", "0">>
ERR999999 == <<"E", "R", "R", "9", "9", "9", "9", "9", "9">>

\* The file held SAMN00000000 and ERR999999: the first was logged, the second
\* is a run, and the loop has ended.
C8_Witness ==
    /\ pc = "validated"
    /\ log_errors = <<SAMN00000000>>
    /\ validated_accessions["run"] = <<ERR999999>>

=============================================================================
